---- MODULE Spec2Model ----
(***************************************************************************)
(* Draft Manager: the localStorage-backed draft service (readStorage,      *)
(* writeStorage, getDrafts, createDraft, updateDraft, deleteDraft), the    *)
(* display sort, the App controller's handlers and the edit form           *)
(* (DraftForm with its CommentSection).                                    *)
(*                                                                         *)
(* JavaScript values.  Scalars (ids, ISO dates, user names, booleans,      *)
(* null, undefined) are TLA+ strings; a text the code edits character by   *)
(* character (draftName, draftPath, parent, comment text) is a sequence of *)
(* one-character strings; an array is a sequence; an object is a function  *)
(* from its keys, so that a partial `updates` object is a function on the  *)
(* keys it holds and the spread {...draft, ...updates} is  updates @@ draft*)
(***************************************************************************)
EXTENDS Integers, Sequences, FiniteSets, TLC

VARIABLES
    hasLocalStorage,  \* window.localStorage exists (fixed by the environment)
    localStorage,     \* the value under STORAGE_KEY
    inMemoryDrafts,   \* the module-level fallback list
    nextId,           \* number of ids generateId has handed out
    drafts,           \* App state: the displayed list
    selectedDraft,    \* App state: the draft being edited, <<>> for null
    loading,          \* App state: the busy flag
    call,             \* the last call made on the service or the controller
    ret,              \* what the service returned to that call
    pre,              \* the store as it was when that call started
    steps,            \* number of calls made so far
    formData,         \* DraftForm state: the fields of the form
    comments,         \* DraftForm state: the comments of the form
    edits             \* number of changes made in the form so far

vars == <<hasLocalStorage, localStorage, inMemoryDrafts, nextId, drafts,
          selectedDraft, loading, call, ret, pre, steps, formData, comments,
          edits>>

-----------------------------------------------------------------------------
(* Bounds of the model *)

\* calls made in one behaviour
MaxSteps == 2
\* length of a draft name handed to createDraft
MaxLen == 4
\* length of a list handed to the display sort
MaxSort == 4
\* length of a list an earlier session left in the store
MaxList == 3
\* changes made in the form in one behaviour
MaxEdits == 2

-----------------------------------------------------------------------------
(* JavaScript scalars *)

NULL == "null"
UNDEFINED == "undefined"
JsTrue == "true"
JsFalse == "false"

\* ToBoolean of a scalar
Truthy(v) == v \notin {"", NULL, UNDEFINED, JsFalse}

IsBoolean(v) == v \in {JsTrue, JsFalse}

\* !v
Not(v) == IF Truthy(v) THEN JsFalse ELSE JsTrue

\* o.f, undefined when the object has no such key
Get(o, f) == IF f \in DOMAIN o THEN o[f] ELSE UNDEFINED

\* the keys whose values are scalars; the others hold texts or arrays
ScalarFields == {"draftId", "releaseDate", "createdDate", "createdBy", "committed",
                 "committedBy", "committedDate", "archived", "backupPath",
                 "parentMaster", "commentId"}

\* a value of a text-typed key that is not a string (typeof v # "string")
NotAString == <<"[object]">>

IsString(s) == s # NotAString

-----------------------------------------------------------------------------
(* Texts: String.prototype.trim, toLowerCase and replace(/\s+/g, "-") *)

IsSpace(c) == c \in {" ", "\t", "\n"}

RECURSIVE TrimStart(_)
TrimStart(s) ==
    IF s = <<>> THEN <<>>
    ELSE IF IsSpace(Head(s)) THEN TrimStart(Tail(s)) ELSE s

RECURSIVE TrimEnd(_)
TrimEnd(s) ==
    IF s = <<>> THEN <<>>
    ELSE IF IsSpace(s[Len(s)]) THEN TrimEnd(SubSeq(s, 1, Len(s) - 1)) ELSE s

trim(s) == TrimEnd(TrimStart(s))

LowerChar(c) ==
    CASE c = "A" -> "a" [] c = "B" -> "b" [] c = "Q" -> "q" [] c = "R" -> "r"
      [] c = "S" -> "s" [] OTHER -> c

toLowerCase(s) == [i \in 1..Len(s) |-> LowerChar(s[i])]

\* s.replace(/\s+/g, "-"): every maximal run of whitespace becomes one hyphen
RECURSIVE ReplaceSpaceRuns(_)
ReplaceSpaceRuns(s) ==
    IF s = <<>> THEN <<>>
    ELSE IF IsSpace(Head(s))
         THEN <<"-">> \o ReplaceSpaceRuns(TrimStart(s))
         ELSE <<Head(s)>> \o ReplaceSpaceRuns(Tail(s))

\* every whitespace character becomes a hyphen of its own
slugPerCharacter(s) ==
    [i \in 1..Len(s) |-> IF IsSpace(s[i]) THEN "-" ELSE LowerChar(s[i])]

slugOf(s) == ReplaceSpaceRuns(toLowerCase(s))

DraftsPrefix == <<"/", "d", "r", "a", "f", "t", "s", "/">>

-----------------------------------------------------------------------------
(* Dates: new Date(s).getTime() of the ISO strings the model uses *)

Clock == {"2030-01-01T00:00:00.000Z", "2030-01-02T00:00:00.000Z"}

SeedReleaseDate == "2030-01-31T00:00:00.000Z"
SeedCreatedDate == "2029-12-30T00:00:00.000Z"

\* days since an epoch; two spellings of one instant have one time
Times ==
    [s \in {"2019-01-01", "2020-01-01", "2020-01-01T00:00:00.000Z",
            SeedCreatedDate, "2030-01-01T00:00:00.000Z",
            "2030-01-02T00:00:00.000Z", SeedReleaseDate,
            "2031-06-01T00:00:00.000Z"} |->
        CASE s = "2019-01-01" -> 10
          [] s = "2020-01-01" -> 20
          [] s = "2020-01-01T00:00:00.000Z" -> 20
          [] s = SeedCreatedDate -> 28
          [] s = "2030-01-01T00:00:00.000Z" -> 30
          [] s = "2030-01-02T00:00:00.000Z" -> 31
          [] s = SeedReleaseDate -> 60
          [] s = "2031-06-01T00:00:00.000Z" -> 70]

\* Number.isFinite(new Date(s).getTime())
IsValidDate(s) == s \in DOMAIN Times

getTime(s) == Times[s]

-----------------------------------------------------------------------------
(* generateId and the seed list *)

IdNames == <<"id-1", "id-2", "id-3", "id-4", "id-5", "id-6">>

\* crypto.randomUUID(): the n-th id handed out, different from every other
generateId(n) == IdNames[n + 1]

SeedId == "seed-id"

seedDrafts ==
    << [draftId |-> SeedId,
        draftName |-> <<"S", "p", "r", "i", "n", "g", " ", "R", "e", "l", "e", "a", "s", "e">>,
        parent |-> <<"s", "e", "e", "d", "-", "p", "a", "r", "e", "n", "t">>,
        draftPath |-> DraftsPrefix \o <<"s", "p", "r", "i", "n", "g", "-", "r", "e", "l", "e", "a", "s", "e">>,
        releaseDate |-> SeedReleaseDate,
        createdDate |-> SeedCreatedDate,
        createdBy |-> "system",
        committed |-> JsFalse,
        committedBy |-> NULL,
        committedDate |-> NULL,
        archived |-> JsFalse,
        backupPath |-> NULL,
        comments |-> << [commentId |-> "seed-comment",
                         text |-> <<"I", "n", "i", "t">>] >>,
        parentMaster |-> JsFalse] >>

-----------------------------------------------------------------------------
(* The store: window.localStorage[STORAGE_KEY] and its JSON encoding *)

\* getItem returns null
Absent == [kind |-> "absent", val |-> <<>>]
\* a text JSON.parse throws on
Corrupt == [kind |-> "corrupt", val |-> <<>>]
\* a JSON text that is not an array
NonList == [kind |-> "nonlist", val |-> <<>>]

\* JSON.stringify of an object: keys holding undefined are left out
JsonObject(o) ==
    [f \in {g \in DOMAIN o : ~(g \in ScalarFields /\ o[g] = UNDEFINED)} |->
        IF f = "comments"
        THEN [i \in 1..Len(o[f]) |->
                 [g \in {h \in DOMAIN o[f][i] :
                            ~(h \in ScalarFields /\ o[f][i][h] = UNDEFINED)} |->
                     o[f][i][g]]]
        ELSE o[f]]

\* the text JSON.stringify(list) leaves in the store, held as JSON.parse reads it
JSONStringify(list) ==
    [kind |-> "list", val |-> [i \in 1..Len(list) |-> JsonObject(list[i])]]

NullList == [isNull |-> TRUE, val |-> <<>>]
SomeList(list) == [isNull |-> FALSE, val |-> list]

\* readStorage(): the list it returns and the store it leaves
readStorage(has, ls, mem) ==
    IF ~has
    THEN [drafts |-> IF mem.isNull THEN seedDrafts ELSE mem.val,
          localStorage |-> ls]
    ELSE IF ls.kind = "absent"
    THEN [drafts |-> seedDrafts, localStorage |-> JSONStringify(seedDrafts)]
    ELSE IF ls.kind = "list"
    THEN [drafts |-> ls.val, localStorage |-> ls]
    ELSE [drafts |-> seedDrafts, localStorage |-> ls]

\* drafts.slice(1) for drafts.slice()
writeStorageTail(has, ls, mem, list) ==
    IF ~has
    THEN [localStorage |-> ls,
          inMemoryDrafts |-> SomeList(SubSeq(list, 2, Len(list)))]
    ELSE [localStorage |-> JSONStringify(SubSeq(list, 2, Len(list))),
          inMemoryDrafts |-> mem]

\* writeStorage(drafts): the store it leaves
writeStorage(has, ls, mem, list) ==
    IF ~has
    THEN [localStorage |-> ls, inMemoryDrafts |-> SomeList(list)]
    ELSE [localStorage |-> JSONStringify(list), inMemoryDrafts |-> mem]

\* the list a read of the given store returns
ViewOf(ls, mem) == readStorage(hasLocalStorage, ls, mem).drafts

View == ViewOf(localStorage, inMemoryDrafts)

-----------------------------------------------------------------------------
(* The draft service *)

\* a || b on scalars
Or(a, b) == IF Truthy(a) THEN a ELSE b

\* a text argument that may be missing: (x || "")
TextOr(o, f) == IF f \in DOMAIN o THEN o[f] ELSE <<>>

\* what a call of the service leaves: whether it threw, what it returned
\* (a list of zero or one draft for null or a record), and the store after it
Outcome(kind, val, ls, mem, n) ==
    [kind |-> kind, val |-> val, localStorage |-> ls, inMemoryDrafts |-> mem,
     nextId |-> n]

\* the record createDraft builds
newDraft(safeName, parent, releaseDate, id, now) ==
    [draftId |-> id,
     draftName |-> safeName,
     parent |-> trim(parent),
     draftPath |-> DraftsPrefix \o slugOf(safeName),
     releaseDate |-> Or(releaseDate, now),
     createdDate |-> now,
     createdBy |-> "current.user",
     committed |-> JsFalse,
     committedBy |-> NULL,
     committedDate |-> NULL,
     archived |-> JsFalse,
     backupPath |-> NULL,
     comments |-> <<>>,
     parentMaster |-> JsFalse]

createDraft(a, now) ==
    LET rd == readStorage(hasLocalStorage, localStorage, inMemoryDrafts)
        safeName == trim(TextOr(a, "draftName"))
    IN  IF safeName = <<>>
        THEN Outcome("threw", <<>>, rd.localStorage, inMemoryDrafts, nextId)
        ELSE LET nd == newDraft(safeName, TextOr(a, "parent"), Get(a, "releaseDate"),
                                generateId(nextId), now)
                 w == writeStorage(hasLocalStorage, rd.localStorage, inMemoryDrafts,
                                   <<nd>> \o rd.drafts)
             IN  Outcome("draft", <<nd>>, w.localStorage, w.inMemoryDrafts, nextId + 1)

\* the committed flag updateDraft settles on
mergedCommitted(draft, updates) ==
    IF IsBoolean(Get(updates, "committed"))
    THEN updates.committed
    ELSE Get(draft, "committed")

\* the commit field is never cleared
commitFieldKept(draft, updates, f, fresh) ==
    Or(Get(updates, f), Or(Get(draft, f), fresh))

\* committedDate / committedBy: kept coherent with the committed flag
commitField(draft, updates, f, fresh) ==
    IF Truthy(mergedCommitted(draft, updates))
    THEN Or(Get(updates, f), Or(Get(draft, f), fresh))
    ELSE NULL

\* updates.draftName && typeof updates.draftName === "string"
nameChanged(updates) ==
    /\ "draftName" \in DOMAIN updates
    /\ IsString(updates.draftName)
    /\ updates.draftName # <<>>

\* the override is ignored
derivedPath(updates) == DraftsPrefix \o slugOf(trim(updates.draftName))

\* updates.draftPath || `/drafts/${slug}`
normalizedPath(updates) ==
    IF "draftPath" \in DOMAIN updates /\ updates.draftPath # <<>>
    THEN updates.draftPath
    ELSE DraftsPrefix \o slugOf(trim(updates.draftName))

\* the record updateDraft puts in place of the matching one
updateOne(draft, updates, now) ==
    LET merged ==
            [committed |-> mergedCommitted(draft, updates),
             committedDate |-> commitField(draft, updates, "committedDate", now),
             committedBy |-> commitField(draft, updates, "committedBy", "current.user")]
            @@ updates @@ draft
    IN  IF nameChanged(updates)
        THEN [draftPath |-> normalizedPath(updates)] @@ merged
        ELSE merged

\* every record is updated, whatever its id
mapEvery(list, draftId, updates, now) ==
    [i \in 1..Len(list) |-> updateOne(list[i], updates, now)]

\* drafts.map(...) of updateDraft
mapDrafts(list, draftId, updates, now) ==
    [i \in 1..Len(list) |->
        IF Get(list[i], "draftId") # draftId THEN list[i]
        ELSE updateOne(list[i], updates, now)]

\* the positions of the records with the given id
Matches(list, draftId) == {i \in 1..Len(list) : Get(list[i], "draftId") = draftId}

Max(S) == CHOOSE x \in S : \A y \in S : y <= x

updateDraft(draftId, updates, now) ==
    IF ~Truthy(draftId)
    THEN Outcome("threw", <<>>, localStorage, inMemoryDrafts, nextId)
    ELSE LET rd == readStorage(hasLocalStorage, localStorage, inMemoryDrafts)
             next == mapDrafts(rd.drafts, draftId, updates, now)
             hit == Matches(rd.drafts, draftId)
             w == writeStorage(hasLocalStorage, rd.localStorage, inMemoryDrafts, next)
         IN  IF hit = {}
             THEN Outcome("null", <<>>, w.localStorage, w.inMemoryDrafts, nextId)
             ELSE Outcome("draft", <<next[Max(hit)]>>, w.localStorage,
                          w.inMemoryDrafts, nextId)

\* the comparison is turned round
filterMatching(list, draftId) ==
    SelectSeq(list, LAMBDA d : Get(d, "draftId") = draftId)

\* drafts.filter((draft) => draft.draftId !== draftId)
filterDrafts(list, draftId) ==
    SelectSeq(list, LAMBDA d : Get(d, "draftId") # draftId)

deleteDraft(draftId) ==
    IF ~Truthy(draftId)
    THEN Outcome("threw", <<>>, localStorage, inMemoryDrafts, nextId)
    ELSE LET rd == readStorage(hasLocalStorage, localStorage, inMemoryDrafts)
             next == filterDrafts(rd.drafts, draftId)
             w == writeStorage(hasLocalStorage, rd.localStorage, inMemoryDrafts, next)
         IN  Outcome("list", next, w.localStorage, w.inMemoryDrafts, nextId)

getDrafts ==
    LET rd == readStorage(hasLocalStorage, localStorage, inMemoryDrafts)
    IN  Outcome("list", rd.drafts, rd.localStorage, inMemoryDrafts, nextId)

-----------------------------------------------------------------------------
(* The display sort *)

\* Number.isFinite(ta) for ta = a?.releaseDate ? new Date(a.releaseDate).getTime() : NaN
hasValidDate(a) ==
    Truthy(Get(a, "releaseDate")) /\ IsValidDate(Get(a, "releaseDate"))

\* a record without a valid date counts as the earliest
compareMissingFirst(a, b) ==
    IF hasValidDate(a) /\ hasValidDate(b)
    THEN getTime(a.releaseDate) - getTime(b.releaseDate)
    ELSE IF hasValidDate(a) THEN 1
    ELSE IF hasValidDate(b) THEN -1
    ELSE 0

\* the comparator handed to Array.prototype.sort
compare(a, b) ==
    IF hasValidDate(a) /\ hasValidDate(b)
    THEN getTime(a.releaseDate) - getTime(b.releaseDate)
    ELSE IF hasValidDate(a) THEN -1
    ELSE IF hasValidDate(b) THEN 1
    ELSE 0

\* Array.prototype.sort is stable: an element goes after every element that
\* does not compare greater than it
RECURSIVE insertSorted(_, _)
insertSorted(sorted, x) ==
    IF sorted = <<>> THEN <<x>>
    ELSE IF compare(sorted[Len(sorted)], x) > 0
         THEN insertSorted(SubSeq(sorted, 1, Len(sorted) - 1), x)
              \o <<sorted[Len(sorted)]>>
         ELSE sorted \o <<x>>

RECURSIVE sortFrom(_, _)
sortFrom(sorted, rest) ==
    IF rest = <<>> THEN sorted
    ELSE sortFrom(insertSorted(sorted, Head(rest)), Tail(rest))

\* drafts.slice().sort(...)
sortDrafts(list) == sortFrom(<<>>, list)

\* a call of sortDrafts: the array it returns, and the array it was handed as
\* that array is after the call (the sort works on a copy)
sortCall(list) == [result |-> sortDrafts(list), input |-> list]

-----------------------------------------------------------------------------
(* The App controller *)

\* refreshDrafts on the store a service call has left: the list it displays
\* and the store its read leaves
refreshDrafts(o) ==
    LET rd == readStorage(hasLocalStorage, o.localStorage, o.inMemoryDrafts)
    IN  [drafts |-> sortDrafts(rd.drafts), localStorage |-> rd.localStorage]

\* the object handleCreate hands to createDraft
createArgs(payload) ==
    [draftName |-> trim(TextOr(payload, "draftName")),
     parent |-> TextOr(payload, "parent"),
     releaseDate |-> Or(Get(payload, "releaseDate"), NULL)]

\* the updates handleUpdate hands to updateDraft
updateArgs(payload, sel) ==
    [draftName |-> IF "draftName" \in DOMAIN payload
                   THEN trim(payload.draftName) ELSE sel.draftName,
     releaseDate |-> IF Get(payload, "releaseDate") \in {NULL, UNDEFINED}
                     THEN Get(sel, "releaseDate") ELSE payload.releaseDate,
     comments |-> IF "comments" \in DOMAIN payload
                  THEN payload.comments ELSE sel.comments,
     committed |-> IF IsBoolean(Get(payload, "committed"))
                   THEN payload.committed ELSE Get(sel, "committed"),
     archived |-> IF IsBoolean(Get(payload, "archived"))
                  THEN payload.archived ELSE Get(sel, "archived")]

NoDraft == <<>>

-----------------------------------------------------------------------------
(* DraftForm: the state of the form *)

\* the value of the datetime-local input and the ISO string of each instant
DateTimes ==
    << [time |-> 10, local |-> "2019-01-01T00:00", iso |-> "2019-01-01T00:00:00.000Z"],
       [time |-> 20, local |-> "2020-01-01T00:00", iso |-> "2020-01-01T00:00:00.000Z"],
       [time |-> 28, local |-> "2029-12-30T00:00", iso |-> SeedCreatedDate],
       [time |-> 30, local |-> "2030-01-01T00:00", iso |-> "2030-01-01T00:00:00.000Z"],
       [time |-> 31, local |-> "2030-01-02T00:00", iso |-> "2030-01-02T00:00:00.000Z"],
       [time |-> 60, local |-> "2030-01-31T00:00", iso |-> SeedReleaseDate],
       [time |-> 70, local |-> "2031-06-01T00:00", iso |-> "2031-06-01T00:00:00.000Z"] >>

\* new Date(value) of the datetime-local input's value
parseLocal(value) ==
    DateTimes[CHOOSE i \in 1..Len(DateTimes) : DateTimes[i].local = value]

toLocalInput(isoString) ==
    IF ~Truthy(isoString) \/ ~IsValidDate(isoString)
    THEN ""
    ELSE DateTimes[CHOOSE i \in 1..Len(DateTimes) :
                       DateTimes[i].time = getTime(isoString)].local

\* useState of formData
BlankForm ==
    [draftName |-> <<>>, parent |-> <<>>, releaseDate |-> "",
     committed |-> JsFalse, archived |-> JsFalse]

\* Boolean(v)
Boolean(v) == IF Truthy(v) THEN JsTrue ELSE JsFalse

\* what useEffect(..., [initialDraft]) sets the form to
formOf(sel) ==
    IF sel = NoDraft
    THEN [formData |-> BlankForm, comments |-> <<>>]
    ELSE [formData |->
              [draftName |-> TextOr(sel[1], "draftName"),
               parent |-> TextOr(sel[1], "parent"),
               releaseDate |-> toLocalInput(Get(sel[1], "releaseDate")),
               committed |-> Boolean(Get(sel[1], "committed")),
               archived |-> Boolean(Get(sel[1], "archived"))],
          comments |-> IF "comments" \in DOMAIN sel[1] THEN sel[1].comments
                       ELSE <<>>]

\* validate(): no field has an error
validate(now) ==
    /\ trim(formData.draftName) # <<>>
    /\ selectedDraft # NoDraft \/ trim(formData.parent) # <<>>
    /\ formData.releaseDate # ""
    /\ parseLocal(formData.releaseDate).time > getTime(now)

\* the payload handleSubmit hands to onSubmit; cs is the comments of the
\* render the handler was made in
submitPayload(cs) ==
    IF selectedDraft # NoDraft
    THEN [draftName |-> trim(formData.draftName),
          parent |-> trim(formData.parent),
          releaseDate |-> parseLocal(formData.releaseDate).iso,
          committed |-> formData.committed,
          archived |-> formData.archived,
          comments |-> cs]
    ELSE [draftName |-> trim(formData.draftName),
          parent |-> trim(formData.parent),
          releaseDate |-> parseLocal(formData.releaseDate).iso]

\* a string held where an object is looked for: the comment handleAddComment
\* appends is the text itself
StringValue(text) == [string |-> text]

IsStringValue(c) == DOMAIN c = {"string"}

IndexKeys == <<"0", "1", "2", "3">>

\* { ...comment, text }: the own keys of a string are its indices
withText(comment, text) ==
    IF IsStringValue(comment)
    THEN [k \in {IndexKeys[i] : i \in 1..Len(comment.string)} \cup {"text"} |->
             IF k = "text" THEN text
             ELSE <<comment.string[CHOOSE i \in 1..Len(comment.string) :
                                       IndexKeys[i] = k]>>]
    ELSE [k \in DOMAIN comment \cup {"text"} |->
             IF k = "text" THEN text ELSE comment[k]]

-----------------------------------------------------------------------------
(* Inputs *)

BlankName == <<" ", " ">>
PlainName == <<"Q", "1">>
MessyName == <<" ", "Q", " ", " ", "R", "\t">>
CustomPath == <<"/", "x">>

\* a record an earlier session left in the store
OldDraft ==
    [draftId |-> "old-id",
     draftName |-> <<"O", "l", "d">>,
     parent |-> <<"P">>,
     draftPath |-> DraftsPrefix \o <<"o", "l", "d">>,
     releaseDate |-> "2020-01-01",
     createdDate |-> "2019-01-01",
     createdBy |-> "current.user",
     committed |-> JsTrue,
     committedBy |-> "current.user",
     committedDate |-> "2019-01-01",
     archived |-> JsFalse,
     backupPath |-> NULL,
     comments |-> <<>>,
     parentMaster |-> JsFalse]

PriorLists == {<<>>, <<OldDraft>>}

CreatePool ==
    {[draftName |-> n, parent |-> <<" ", "P">>, releaseDate |-> "2020-01-01T00:00:00.000Z"] :
        n \in {<<>>, BlankName, PlainName, MessyName}}
    \cup {[draftName |-> PlainName], [parent |-> <<"P">>]}

IdPool == {SeedId, "id-1", "old-id", "no-such-id", ""}

\* the ids of the records earlier sessions left, oldest first
OldIds == <<"old-id", "old-2", "old-3", "old-4", "old-5">>

DeletePool == IdPool \cup {OldIds[i] : i \in 1..Len(OldIds)}

\* the i-th record an earlier session left, with the given release date
Stored(i, date) ==
    JsonObject([draftId |-> OldIds[i], releaseDate |-> date] @@ OldDraft)

\* the sequences of at most n different elements of S
RECURSIVE Arrangements(_, _)
Arrangements(S, n) ==
    IF n = 0 THEN {<<>>}
    ELSE LET shorter == Arrangements(S, n - 1)
         IN  shorter \cup
             {l \o <<x>> : l \in {m \in shorter : Len(m) = n - 1}, x \in S}

NoRepeat(l) == \A i, j \in 1..Len(l) : l[i] = l[j] => i = j

\* the lists of up to MaxList records with different ids
StoredLists ==
    {[i \in 1..Len(l) |-> Stored(l[i], "2020-01-01")] :
        l \in {m \in Arrangements(1..MaxList, MaxList) : NoRepeat(m)}}

\* what a releaseDate can hold; undefined stands for a record without the key
DatePool == {NULL, UNDEFINED, "", "invalid", "2019-01-01", "2020-01-01",
             "2020-01-01T00:00:00.000Z"}

\* the lists of up to MaxSort records, the i-th with the i-th id
SortLists ==
    {[i \in 1..Len(l) |-> Stored(i, l[i])] : l \in Arrangements(DatePool, MaxSort)}

Alphabet == {"Q", "r", " ", "\t"}

\* the names of up to MaxLen characters
NamesUpTo == Arrangements(Alphabet, MaxLen)

UpdatePool ==
    {<<>>,
     [committed |-> JsTrue], [committed |-> JsFalse], [committed |-> "yes"],
     [committedBy |-> "bob"], [committedDate |-> "2019-01-01"],
     [committed |-> JsFalse, committedBy |-> "bob", committedDate |-> "2019-01-01"],
     [committed |-> JsTrue, committedBy |-> "bob"],
     [committed |-> JsTrue, committedBy |-> NULL, committedDate |-> NULL],
     [draftName |-> PlainName], [draftName |-> MessyName], [draftName |-> <<>>],
     [draftName |-> BlankName], [draftName |-> NotAString],
     [draftName |-> PlainName, draftPath |-> CustomPath],
     [draftName |-> PlainName, draftPath |-> <<>>],
     [draftPath |-> CustomPath], [draftPath |-> <<>>],
     [draftId |-> "other-id"], [parent |-> <<"Q">>],
     [archived |-> JsTrue], [releaseDate |-> "2019-01-01"],
     [releaseDate |-> "invalid"], [releaseDate |-> UNDEFINED],
     [backupPath |-> UNDEFINED], [comments |-> <<>>], [createdBy |-> "eve"]}

\* what the create form can submit
CreatePayloads ==
    {[draftName |-> n, parent |-> <<"P">>, releaseDate |-> d] :
        n \in {PlainName, BlankName},
        d \in {"2030-01-02T00:00:00.000Z", "2031-06-01T00:00:00.000Z"}}

\* what the edit form can submit
UpdatePayloads ==
    {[draftName |-> PlainName, parent |-> <<"P">>,
      releaseDate |-> "2030-01-02T00:00:00.000Z",
      committed |-> c, archived |-> a, comments |-> <<>>] :
        c \in {JsTrue, JsFalse}, a \in {JsTrue, JsFalse}}
    \cup {<<>>}

\* what the user can type into the form's draftName, parent and releaseDate
FormNames == {BlankName, PlainName}
FormParents == {<<"P">>}
FormDates == {"", "2031-06-01T00:00"}

\* what the user can type into the box of a new comment
NewComments == {<<" ">>, <<" ", "h", "i", " ">>}

\* what the user can type into the box of a listed comment
CommentTexts == {<<>>, <<"o", "k", " ">>}

-----------------------------------------------------------------------------
(* Initial states: the module is loaded, the App is mounted, nothing called *)

NoCall == [op |-> "none", draftId |-> "", args |-> <<>>]
NoRet == [kind |-> "none", val |-> <<>>]

Init ==
    /\ hasLocalStorage \in BOOLEAN
    /\ localStorage \in
           IF hasLocalStorage
           THEN {Absent, Corrupt, NonList} \cup {JSONStringify(l) : l \in PriorLists}
           ELSE {Absent}
    /\ inMemoryDrafts = NullList
    /\ nextId = 0
    /\ drafts = <<>>
    /\ selectedDraft = NoDraft
    /\ loading = FALSE
    /\ call = NoCall
    /\ ret = NoRet
    /\ pre = [localStorage |-> localStorage, inMemoryDrafts |-> inMemoryDrafts]
    /\ steps = 0
    /\ formData = BlankForm
    /\ comments = <<>>
    /\ edits = 0

-----------------------------------------------------------------------------
(* Calls of the service *)

\* a call is made: its arguments, its result and the store before it are kept
Called(op, draftId, args, o) ==
    /\ steps < MaxSteps
    /\ steps' = steps + 1
    /\ call' = [op |-> op, draftId |-> draftId, args |-> args]
    /\ ret' = [kind |-> o.kind, val |-> o.val]
    /\ pre' = [localStorage |-> localStorage, inMemoryDrafts |-> inMemoryDrafts]
    /\ nextId' = o.nextId
    /\ inMemoryDrafts' = o.inMemoryDrafts
    /\ UNCHANGED hasLocalStorage

\* the service called from outside the App
Service(op, draftId, args, o) ==
    /\ Called(op, draftId, args, o)
    /\ localStorage' = o.localStorage
    /\ UNCHANGED <<drafts, selectedDraft, loading, formData, comments, edits>>

CreateDraft ==
    \E a \in CreatePool, now \in Clock :
        Service("createDraft", "", a, createDraft(a, now))

UpdateDraft ==
    \E id \in IdPool, u \in UpdatePool, now \in Clock :
        Service("updateDraft", id, u, updateDraft(id, u, now))

DeleteDraft ==
    \E id \in IdPool : Service("deleteDraft", id, <<>>, deleteDraft(id))

GetDrafts == Service("getDrafts", "", <<>>, getDrafts)

-----------------------------------------------------------------------------
(* The App's handlers *)

\* the handler does not refresh
RefreshedNot(op, draftId, args, o, sel) ==
    /\ Called(op, draftId, args, o)
    /\ localStorage' = o.localStorage
    /\ selectedDraft' = sel
    /\ UNCHANGED <<drafts, loading>>

\* a handler that called the service and then refreshDrafts
Refreshed(op, draftId, args, o, sel) ==
    /\ Called(op, draftId, args, o)
    /\ localStorage' = refreshDrafts(o).localStorage
    /\ drafts' = refreshDrafts(o).drafts
    /\ selectedDraft' = sel
    /\ loading' = FALSE

\* a handler whose service call threw: nothing after the call ran
Threw(op, draftId, args, o) ==
    /\ Called(op, draftId, args, o)
    /\ localStorage' = o.localStorage
    /\ UNCHANGED <<drafts, selectedDraft, loading>>

\* useEffect(..., [initialDraft]) once the handler has run: the form is set
\* from the new selection when the selection has changed, and is otherwise
\* as the handler left it
initialDraftEffect(after) ==
    IF selectedDraft' = selectedDraft
    THEN formData' = formData /\ comments' = after
    ELSE /\ formData' = formOf(selectedDraft').formData
         /\ comments' = formOf(selectedDraft').comments

\* a handler of the App that is not the form's: the form changes only
\* through the selection
OutsideForm == initialDraftEffect(comments) /\ UNCHANGED edits

\* useEffect(() => refreshDrafts(), [])
RefreshDrafts ==
    /\ localStorage' = refreshDrafts(getDrafts).localStorage
    /\ drafts' = refreshDrafts(getDrafts).drafts
    /\ loading' = FALSE
    /\ call' = [op |-> "refreshDrafts", draftId |-> "", args |-> <<>>]
    /\ ret' = NoRet
    /\ pre' = [localStorage |-> localStorage, inMemoryDrafts |-> inMemoryDrafts]
    /\ UNCHANGED <<hasLocalStorage, inMemoryDrafts, nextId, selectedDraft, steps,
                   formData, comments, edits>>

\* onEdit={(draft) => setSelectedDraft(draft)}
\* the effect runs when the draft handed over is another object than the
\* selected one; a draft equal to the selected one is the same object, or
\* one a later read of the store has made
SelectDraft ==
    \E i \in 1..Len(drafts), sameObject \in BOOLEAN :
        /\ selectedDraft' = <<drafts[i]>>
        /\ IF sameObject /\ selectedDraft = <<drafts[i]>>
           THEN UNCHANGED <<formData, comments>>
           ELSE /\ formData' = formOf(<<drafts[i]>>).formData
                /\ comments' = formOf(<<drafts[i]>>).comments
        /\ UNCHANGED <<hasLocalStorage, localStorage, inMemoryDrafts, nextId, drafts,
                       loading, call, ret, pre, steps, edits>>

\* onCancel={() => setSelectedDraft(null)}
CancelEdit ==
    /\ selectedDraft # NoDraft
    /\ selectedDraft' = NoDraft
    /\ OutsideForm
    /\ UNCHANGED <<hasLocalStorage, localStorage, inMemoryDrafts, nextId, drafts,
                   loading, call, ret, pre, steps>>

\* onSubmit is handleCreate while no draft is selected
HandleCreate ==
    /\ selectedDraft = NoDraft
    /\ \E payload \in CreatePayloads, now \in Clock :
          LET o == createDraft(createArgs(payload), now)
          IN  IF o.kind = "threw"
              THEN Threw("handleCreate", "", payload, o)
              ELSE Refreshed("handleCreate", "", payload, o, NoDraft)
    /\ OutsideForm

\* onSubmit is handleUpdate while a draft is selected
HandleUpdate ==
    /\ selectedDraft # NoDraft
    /\ \E payload \in UpdatePayloads, now \in Clock :
          LET sel == selectedDraft[1]
              o == updateDraft(Get(sel, "draftId"), updateArgs(payload, sel), now)
          IN  IF o.kind = "threw"
              THEN Threw("handleUpdate", Get(sel, "draftId"), payload, o)
              ELSE Refreshed("handleUpdate", Get(sel, "draftId"), payload, o, NoDraft)
    /\ OutsideForm

HandleDelete ==
    \E i \in 1..Len(drafts), confirmed \in {JsTrue, JsFalse} :
        LET id == Get(drafts[i], "draftId")
            o == deleteDraft(id)
        IN  /\ IF ~Truthy(confirmed)
               THEN Service("handleDelete", id, [confirmed |-> confirmed],
                            Outcome("none", <<>>, localStorage, inMemoryDrafts, nextId))
               ELSE IF o.kind = "threw"
               THEN Threw("handleDelete", id, [confirmed |-> confirmed], o)
               ELSE Refreshed("handleDelete", id, [confirmed |-> confirmed], o,
                              IF selectedDraft # NoDraft
                                 /\ Get(selectedDraft[1], "draftId") = id
                              THEN NoDraft ELSE selectedDraft)
            /\ OutsideForm

HandleToggleCommit ==
    \E i \in 1..Len(drafts), now \in Clock :
        LET id == Get(drafts[i], "draftId")
            u == [committed |-> Not(Get(drafts[i], "committed"))]
            o == updateDraft(id, u, now)
        IN  /\ IF o.kind = "threw"
               THEN Threw("handleToggleCommit", id, u, o)
               ELSE Refreshed("handleToggleCommit", id, u, o, selectedDraft)
            /\ OutsideForm

HandleToggleArchive ==
    \E i \in 1..Len(drafts), now \in Clock :
        LET id == Get(drafts[i], "draftId")
            u == [archived |-> Not(Get(drafts[i], "archived"))]
            o == updateDraft(id, u, now)
        IN  /\ IF o.kind = "threw"
               THEN Threw("handleToggleArchive", id, u, o)
               ELSE Refreshed("handleToggleArchive", id, u, o, selectedDraft)
            /\ OutsideForm

-----------------------------------------------------------------------------
(* DraftForm and CommentSection: the handlers of the form *)

\* a change made in the form
Edited ==
    /\ edits < MaxEdits
    /\ edits' = edits + 1

\* handleInputChange(field, value); the parent is disabled while editing and
\* the two checkboxes are shown only then
HandleInputChange ==
    /\ Edited
    /\ \/ \E v \in FormNames : formData' = [formData EXCEPT !.draftName = v]
       \/ \E v \in FormDates : formData' = [formData EXCEPT !.releaseDate = v]
       \/ /\ selectedDraft = NoDraft
          /\ \E v \in FormParents : formData' = [formData EXCEPT !.parent = v]
       \/ /\ selectedDraft # NoDraft
          /\ formData' = [formData EXCEPT !.committed = Not(formData.committed)]
       \/ /\ selectedDraft # NoDraft
          /\ formData' = [formData EXCEPT !.archived = Not(formData.archived)]
    /\ UNCHANGED <<hasLocalStorage, localStorage, inMemoryDrafts, nextId, drafts,
                   selectedDraft, loading, call, ret, pre, steps, comments>>

\* DraftForm.handleSubmit in a render whose comments are cs; after is the
\* comments the form is left with when the selection stays
handleSubmit(cs, after) ==
    \E now \in Clock :
        IF ~validate(now)
        THEN /\ formData' = formData
             /\ comments' = after
             /\ UNCHANGED <<hasLocalStorage, localStorage, inMemoryDrafts, nextId,
                            drafts, selectedDraft, loading, call, ret, pre, steps>>
        ELSE IF selectedDraft # NoDraft
        THEN LET sel == selectedDraft[1]
                 payload == submitPayload(cs)
                 o == updateDraft(Get(sel, "draftId"), updateArgs(payload, sel), now)
             IN  /\ IF o.kind = "threw"
                    THEN Threw("handleUpdate", Get(sel, "draftId"), payload, o)
                    ELSE Refreshed("handleUpdate", Get(sel, "draftId"), payload, o,
                                   NoDraft)
                 /\ initialDraftEffect(after)
        ELSE LET payload == submitPayload(cs)
                 o == createDraft(createArgs(payload), now)
             IN  /\ IF o.kind = "threw"
                    THEN Threw("handleCreate", "", payload, o)
                    ELSE Refreshed("handleCreate", "", payload, o, NoDraft)
                 /\ initialDraftEffect(after)

\* the form's submit button
HandleSubmit ==
    /\ handleSubmit(comments, comments)
    /\ UNCHANGED edits

\* CommentSection.handleAdd then handleAddComment.  The comment form is
\* rendered inside the draft form: whether its submit event also reaches the
\* draft form's onSubmit is left to the document, so both are taken
HandleAddComment ==
    /\ selectedDraft # NoDraft
    /\ Edited
    /\ \E newComment \in NewComments, bubbles \in BOOLEAN :
          LET trimmed == trim(newComment)
              after == Append(comments, StringValue(trimmed))
          IN  /\ trimmed # <<>>
              /\ IF bubbles
                 THEN handleSubmit(comments, after)
                 ELSE /\ comments' = after
                      /\ UNCHANGED <<hasLocalStorage, localStorage, inMemoryDrafts,
                                     nextId, drafts, selectedDraft, loading, call,
                                     ret, pre, steps, formData>>

\* onUpdate(index, { ...comment, text: e.target.value })
HandleUpdateComment ==
    /\ selectedDraft # NoDraft
    /\ Edited
    /\ \E index \in 1..Len(comments), text \in CommentTexts :
          comments' = [comments EXCEPT ![index] = withText(comments[index], text)]
    /\ UNCHANGED <<hasLocalStorage, localStorage, inMemoryDrafts, nextId, drafts,
                   selectedDraft, loading, call, ret, pre, steps, formData>>

\* comments.filter((_, i) => i !== index)
HandleRemoveComment ==
    /\ selectedDraft # NoDraft
    /\ Edited
    /\ \E index \in 1..Len(comments) :
          comments' = [i \in 1..(Len(comments) - 1) |->
                          IF i < index THEN comments[i] ELSE comments[i + 1]]
    /\ UNCHANGED <<hasLocalStorage, localStorage, inMemoryDrafts, nextId, drafts,
                   selectedDraft, loading, call, ret, pre, steps, formData>>

-----------------------------------------------------------------------------
(* The draft service under every short name, the persistence layer on       *)
(* every store, the display sort on every short list                        *)

\* createDraft as the first call, with any name of up to MaxLen characters
CreateNamed ==
    /\ steps = 0
    /\ \E n \in NamesUpTo, now \in Clock :
          Service("createDraft", "", [draftName |-> n],
                  createDraft([draftName |-> n], now))

\* the stores an earlier session, or a test, can have left
InitStore ==
    /\ hasLocalStorage \in BOOLEAN
    /\ localStorage \in
           IF hasLocalStorage
           THEN {Absent, Corrupt, NonList} \cup {JSONStringify(l) : l \in StoredLists}
           ELSE {Absent}
    /\ inMemoryDrafts \in
           IF hasLocalStorage
           THEN {NullList}
           ELSE {NullList} \cup {SomeList(l) : l \in StoredLists}
    /\ nextId = 0
    /\ drafts = <<>>
    /\ selectedDraft = NoDraft
    /\ loading = FALSE
    /\ call = NoCall
    /\ ret = NoRet
    /\ pre = [localStorage |-> localStorage, inMemoryDrafts |-> inMemoryDrafts]
    /\ steps = 0
    /\ formData = BlankForm
    /\ comments = <<>>
    /\ edits = 0

\* writeStorage(readStorage())
writeRead ==
    LET rd == readStorage(hasLocalStorage, localStorage, inMemoryDrafts)
        w == writeStorage(hasLocalStorage, rd.localStorage, inMemoryDrafts, rd.drafts)
    IN  Outcome("none", rd.drafts, w.localStorage, w.inMemoryDrafts, nextId)

WriteRead == Service("writeRead", "", <<>>, writeRead)

DeleteStored ==
    \E id \in DeletePool : Service("deleteDraft", id, <<>>, deleteDraft(id))

\* sortDrafts on a list: call.args is the list handed in, ret.val the list
\* returned, drafts the handed list as the call left it
SortDrafts ==
    \E list \in SortLists :
        /\ call = NoCall
        /\ call' = [op |-> "sortDrafts", draftId |-> "", args |-> list]
        /\ ret' = [kind |-> "list", val |-> sortCall(list).result]
        /\ drafts' = sortCall(list).input
        /\ UNCHANGED <<hasLocalStorage, localStorage, inMemoryDrafts, nextId,
                       selectedDraft, loading, pre, steps, formData, comments, edits>>

-----------------------------------------------------------------------------
(* Specifications *)

Next == CreateDraft \/ UpdateDraft \/ DeleteDraft \/ GetDrafts

NextApp ==
    \/ RefreshDrafts
    \/ SelectDraft
    \/ CancelEdit
    \/ HandleCreate
    \/ HandleUpdate
    \/ HandleDelete
    \/ HandleToggleCommit
    \/ HandleToggleArchive

NextStore == WriteRead \/ GetDrafts \/ DeleteStored

NextForm ==
    \/ RefreshDrafts
    \/ SelectDraft
    \/ CancelEdit
    \/ HandleSubmit
    \/ HandleInputChange
    \/ HandleAddComment
    \/ HandleUpdateComment
    \/ HandleRemoveComment
    \/ HandleDelete
    \/ HandleToggleCommit
    \/ HandleToggleArchive

\* the service, called in any order
Spec == Init /\ [][Next]_vars

\* the App: every call of the service comes from a handler
SpecApp == Init /\ [][NextApp]_vars

\* the App with its form: every create and every edit comes from the form
SpecForm == Init /\ [][NextForm]_vars

\* createDraft on every short name
SpecSlug == Init /\ [][CreateNamed]_vars

\* the persistence layer and deleteDraft on every store
SpecStore == InitStore /\ [][NextStore]_vars

\* the display sort on every short list
SpecSort == Init /\ [][SortDrafts]_vars

-----------------------------------------------------------------------------
(* What the claims speak of *)

\* the list a read returned before the last call
PreView == ViewOf(pre.localStorage, pre.inMemoryDrafts)

IsNull(v) == v \in {NULL, UNDEFINED}

\* the k-th smallest element of a set of numbers
Nth(K, k) == CHOOSE i \in K : Cardinality({j \in K : j <= i}) = k

\* a text without its leading and trailing whitespace
Trimmed(s) ==
    LET ink == {i \in 1..Len(s) : ~IsSpace(s[i])}
    IN  IF ink = {} THEN <<>>
        ELSE SubSeq(s, Nth(ink, 1), Nth(ink, Cardinality(ink)))

\* lowercase, each whitespace character replaced by a hyphen
SpacesHyphenated(s) ==
    [i \in 1..Len(s) |-> IF IsSpace(s[i]) THEN "-" ELSE LowerChar(s[i])]

\* lowercase, each run of whitespace replaced by one hyphen
RunsHyphenated(s) ==
    LET keep == {i \in 1..Len(s) : ~(IsSpace(s[i]) /\ i > 1 /\ IsSpace(s[i - 1]))}
    IN  [k \in 1..Cardinality(keep) |-> SpacesHyphenated(s)[Nth(keep, k)]]

\* a record whose releaseDate is there and parses
DateParses(d) == "releaseDate" \in DOMAIN d /\ d.releaseDate \in DOMAIN Times

\* two records the sort rule does not tell apart
SameRank(a, b) ==
    \/ ~DateParses(a) /\ ~DateParses(b)
    \/ DateParses(a) /\ DateParses(b) /\ Times[a.releaseDate] = Times[b.releaseDate]

Count(l, x) == Cardinality({i \in 1..Len(l) : l[i] = x})

\* out is list in display order
DisplaySorted(out, list) ==
    /\ Len(out) = Len(list)
    /\ \A i \in 1..Len(list) : Count(out, list[i]) = Count(list, list[i])
    /\ \A i, j \in 1..Len(out) :
          i < j =>
             /\ DateParses(out[j]) => DateParses(out[i])
             /\ DateParses(out[j]) =>
                   Times[out[i].releaseDate] <= Times[out[j].releaseDate]
    /\ NoRepeat(list) =>
          \A i, j \in 1..Len(list) :
             i < j /\ SameRank(list[i], list[j]) =>
                \A p, q \in 1..Len(out) :
                   out[p] = list[i] /\ out[q] = list[j] => p < q

\* a list without the records of the given id, the others in their order
Without(list, id) ==
    LET keep == {i \in 1..Len(list) : Get(list[i], "draftId") # id}
    IN  [k \in 1..Cardinality(keep) |-> list[Nth(keep, k)]]

-----------------------------------------------------------------------------
(* C1 *)

Coherent(d) ==
    /\ IsBoolean(Get(d, "committed"))
    /\ d.committed = JsTrue <=>
          ~IsNull(Get(d, "committedBy")) /\ ~IsNull(Get(d, "committedDate"))
    /\ d.committed = JsFalse <=>
          Get(d, "committedBy") = NULL /\ Get(d, "committedDate") = NULL

\* C1: in every state reached by createDraft, updateDraft (any updates) and
\* deleteDraft, every stored draft, and every draft the service returns, has
\* committed true exactly when committedBy and committedDate are both non-null
\* and committed false exactly when both are null.
C1_CommitCoherent ==
    /\ \A i \in 1..Len(View) : Coherent(View[i])
    /\ ret.kind = "draft" => Coherent(ret.val[1])

\* a draft committed, uncommitted and committed again
C1_ToggledBack ==
    /\ call.op = "updateDraft"
    /\ call.draftId = "old-id"
    /\ call.args = [committed |-> JsTrue]
    /\ \E i \in 1..Len(PreView) :
          /\ PreView[i].draftId = "old-id"
          /\ PreView[i].committed = JsFalse
          /\ PreView[i].committedBy = NULL
          /\ View[i].committed = JsTrue
          /\ View[i].committedBy = "current.user"
          /\ View[i].committedDate \in Clock

-----------------------------------------------------------------------------
(* C2 *)

\* C2 (amended): for every draftName that does not trim to empty, createDraft
\* returns, and stores first, a record whose draftPath is "/drafts/" followed
\* by the trimmed name in lowercase with each run of whitespace replaced by
\* one hyphen.
C2_PathFromName ==
    call.op = "createDraft" /\ Trimmed(TextOr(call.args, "draftName")) # <<>> =>
        /\ ret.kind = "draft"
        /\ ret.val[1].draftPath =
              DraftsPrefix \o RunsHyphenated(Trimmed(call.args.draftName))
        /\ View[1].draftPath = ret.val[1].draftPath

\* a name with a run of two spaces inside
C2_RunOfSpaces ==
    /\ call.op = "createDraft"
    /\ call.args = [draftName |-> <<"Q", " ", " ", "r">>]
    /\ ret.kind = "draft"
    /\ ret.val[1].draftPath = DraftsPrefix \o <<"q", "-", "r">>

\* C2 as first stated: the draftPath is "/drafts/" followed by the lowercased
\* name with each space replaced by a hyphen.
C2_EachSpaceHyphen ==
    call.op = "createDraft" /\ Trimmed(TextOr(call.args, "draftName")) # <<>> =>
        /\ ret.kind = "draft"
        /\ ret.val[1].draftPath =
              DraftsPrefix \o SpacesHyphenated(Trimmed(call.args.draftName))

-----------------------------------------------------------------------------
(* C3 *)

\* C3: updateDraft with a non-empty id that matches no stored record returns
\* null, and the list read back afterwards is the list read before the call.
C3_UnknownIdNoChange ==
    /\ call.op = "updateDraft"
    /\ Truthy(call.draftId)
    /\ \A i \in 1..Len(PreView) : Get(PreView[i], "draftId") # call.draftId
    => ret.kind = "null" /\ View = PreView

\* an unknown id with updates, on a corrupt store
C3_UnknownOnCorrupt ==
    /\ call.op = "updateDraft"
    /\ call.draftId = "no-such-id"
    /\ call.args = [committed |-> JsTrue]
    /\ pre.localStorage = Corrupt
    /\ ret.kind = "null"
    /\ View = seedDrafts

-----------------------------------------------------------------------------
(* C4 *)

\* C4: deleteDraft(id) with a non-empty id returns and stores the list without
\* the record of that id, the others in their order; a second deleteDraft(id)
\* returns the same list; an id that matches no record leaves the list as it was.
C4_DeleteExact ==
    call.op = "deleteDraft" /\ Truthy(call.draftId) =>
        /\ ret.kind = "list"
        /\ ret.val = Without(PreView, call.draftId)
        /\ View = ret.val
        /\ deleteDraft(call.draftId).kind = "list"
        /\ deleteDraft(call.draftId).val = ret.val
        /\ (\A i \in 1..Len(PreView) : Get(PreView[i], "draftId") # call.draftId)
              => ret.val = PreView

\* the middle record of three deleted
C4_MiddleDeleted ==
    /\ call.op = "deleteDraft"
    /\ Len(PreView) = 3
    /\ call.draftId = PreView[2].draftId
    /\ ret.val = <<PreView[1], PreView[3]>>
    /\ View = ret.val

-----------------------------------------------------------------------------
(* C5 *)

\* C5: the display sort returns a permutation of its input with the records
\* whose releaseDate parses first, in ascending order, then the records whose
\* releaseDate is missing or does not parse; records of equal time, and the
\* records without a valid date, keep their order; the input is not modified.
C5_SortedDisplay ==
    call.op = "sortDrafts" =>
        /\ DisplaySorted(ret.val, call.args)
        /\ drafts = call.args

\* release dates [null, "2020-01-01", "invalid", "2019-01-01"]
C5_SpecExample ==
    /\ call.op = "sortDrafts"
    /\ Len(call.args) = 4
    /\ [i \in 1..4 |-> Get(call.args[i], "releaseDate")] =
          <<NULL, "2020-01-01", "invalid", "2019-01-01">>
    /\ ret.val = <<call.args[4], call.args[2], call.args[1], call.args[3]>>

-----------------------------------------------------------------------------
(* C6 *)

\* C6: from every store (absent, a list, corrupt, not a list, unavailable with
\* the fallback unset or set), after write(read()) a read returns the list a
\* read returned before, and so does every read after it.
C6_WriteReadNoOp ==
    call.op \in {"writeRead", "getDrafts"} =>
        /\ ret.val = PreView
        /\ View = PreView

\* write(read()) on a corrupt store
C6_CorruptRepaired ==
    /\ call.op = "writeRead"
    /\ pre.localStorage = Corrupt
    /\ localStorage = JSONStringify(seedDrafts)
    /\ View = seedDrafts

-----------------------------------------------------------------------------
(* C7 *)

\* C7: a call rejected for a missing argument (createDraft with a name that
\* trims to empty, updateDraft or deleteDraft with an empty id) throws and
\* changes nothing: the list and the store are as they were before the call.
C7_RejectedChangesNothing ==
    /\ call.op = "createDraft" /\ Trimmed(TextOr(call.args, "draftName")) = <<>>
          => ret.kind = "threw"
    /\ call.op \in {"updateDraft", "deleteDraft"} /\ ~Truthy(call.draftId)
          => ret.kind = "threw"
    /\ call.op \in {"createDraft", "updateDraft", "deleteDraft"} /\ ret.kind = "threw"
          => /\ View = PreView
             /\ localStorage = pre.localStorage
             /\ inMemoryDrafts = pre.inMemoryDrafts

-----------------------------------------------------------------------------
(* C8 *)

\* a handler ran to its end
Completed ==
    /\ call.op \in {"handleCreate", "handleUpdate", "handleDelete",
                    "handleToggleCommit", "handleToggleArchive"}
    /\ ret.kind \notin {"threw", "none"}

\* C8: after every handler that completes (create, edit submit, confirmed
\* delete, toggle commit, toggle archive) the displayed list is the stored list
\* in display order and the busy flag is false; a refresh then changes neither
\* the displayed list nor the store.
C8_ViewFollowsStore ==
    Completed =>
        /\ DisplaySorted(drafts, View)
        /\ loading = FALSE
        /\ refreshDrafts(getDrafts).drafts = drafts
        /\ refreshDrafts(getDrafts).localStorage = localStorage

\* a toggle on a list whose display order is not its stored order
C8_SortedAfterToggle ==
    /\ call.op = "handleToggleCommit"
    /\ ret.kind = "draft"
    /\ Len(drafts) = 2
    /\ drafts = <<View[2], View[1]>>
    /\ drafts[1].committed # drafts[2].committed

-----------------------------------------------------------------------------
(* C9 *)

Ident(list) ==
    [i \in 1..Len(list) |->
        [draftId |-> Get(list[i], "draftId"), parent |-> list[i].parent]]

\* C9: the draftId and the parent of a stored draft never change: updateDraft
\* leaves the ids and parents of the list as they were, createDraft puts one
\* record before them, deleteDraft takes the records of one id away.
C9_IdentityKept ==
    /\ call.op = "updateDraft" /\ ret.kind # "threw"
          => Ident(View) = Ident(PreView)
    /\ call.op = "createDraft" /\ ret.kind = "draft"
          => SubSeq(Ident(View), 2, Len(View)) = Ident(PreView)
    /\ call.op = "deleteDraft" /\ ret.kind = "list"
          => Ident(View) = Without(Ident(PreView), call.draftId)

-----------------------------------------------------------------------------
(* C10 *)

\* the updates hold a draftName that is a non-empty string
Renames(u) == "draftName" \in DOMAIN u /\ u.draftName \notin {<<>>, NotAString}

\* the updates hold a non-empty draftPath
Overrides(u) == "draftPath" \in DOMAIN u /\ u.draftPath # <<>>

\* C10 (amended): updateDraft on an existing draft.  When the updates hold a
\* non-empty string draftName and no non-empty draftPath, the stored draftPath
\* becomes "/drafts/" followed by the new name trimmed, in lowercase, each run
\* of whitespace replaced by one hyphen.  When the updates hold a draftPath, the
\* stored draftPath is that override (an empty override given with such a name
\* excepted).  When they hold neither such a name nor a draftPath, draftPath
\* keeps its value.  Every other field absent from the updates keeps its value,
\* except committedBy and committedDate, which follow the merged committed flag.
C10_PathFollowsName ==
    call.op = "updateDraft" /\ ret.kind = "draft" =>
        \A i \in Matches(PreView, call.draftId) :
            LET old == PreView[i]
                new == View[i]
                u == call.args
            IN  /\ Renames(u) /\ ~Overrides(u) =>
                      new.draftPath =
                         DraftsPrefix \o RunsHyphenated(Trimmed(u.draftName))
                /\ "draftPath" \in DOMAIN u /\ (Overrides(u) \/ ~Renames(u)) =>
                      new.draftPath = u.draftPath
                /\ "draftPath" \notin DOMAIN u /\ ~Renames(u) =>
                      new.draftPath = old.draftPath
                /\ \A f \in DOMAIN old \ (DOMAIN u \cup
                                           {"committedBy", "committedDate", "draftPath"}) :
                      Get(new, f) = old[f]
                /\ Coherent(new)

\* a rename to a name with whitespace around it and a run of spaces inside
C10_MessyRename ==
    /\ call.op = "updateDraft"
    /\ call.args = [draftName |-> MessyName]
    /\ ret.kind = "draft"
    /\ \E i \in Matches(PreView, call.draftId) :
          /\ View[i].draftName = MessyName
          /\ PreView[i].draftPath # View[i].draftPath
          /\ View[i].draftPath = DraftsPrefix \o <<"q", "-", "r">>

\* C10 as first stated (read for non-empty names, trimmed): a changed draftName
\* without a draftPath makes the path "/drafts/" followed by the lowercased
\* name with each space replaced by a hyphen; a draftPath in the updates is stored; with neither in the updates,
\* every field absent from the updates keeps its value.
C10_AsStated ==
    call.op = "updateDraft" /\ ret.kind = "draft" =>
        \A i \in Matches(PreView, call.draftId) :
            LET old == PreView[i]
                new == View[i]
                u == call.args
            IN  /\ /\ Renames(u)
                   /\ u.draftName # old.draftName
                   /\ "draftPath" \notin DOMAIN u
                   => new.draftPath =
                         DraftsPrefix \o SpacesHyphenated(Trimmed(u.draftName))
                /\ "draftName" \in DOMAIN u /\ "draftPath" \in DOMAIN u =>
                      new.draftPath = u.draftPath
                /\ "draftName" \notin DOMAIN u /\ "draftPath" \notin DOMAIN u =>
                      \A f \in DOMAIN old \ DOMAIN u : Get(new, f) = old[f]

-----------------------------------------------------------------------------
(* C11, C12: the edit form *)

\* a Comment: a commentId and a non-empty trimmed text
IsComment(c) ==
    /\ DOMAIN c = {"commentId", "text"}
    /\ Truthy(c.commentId)
    /\ c.text # <<>>
    /\ Trimmed(c.text) = c.text

\* the edit form has been submitted and the update has been made
EditSubmitted ==
    /\ call.op = "handleUpdate"
    /\ ret.kind = "draft"

\* a step of the form that is not a submit: a comment added, edited or
\* removed, an input changed, the edit cancelled, a draft selected
FormStepOnly ==
    /\ steps' = steps
    /\ <<selectedDraft, formData, comments>>' # <<selectedDraft, formData, comments>>

\* C11: after comment add / edit / remove actions in the edit form followed
\* by an edit submit, every element of every stored draft's comments is a
\* Comment, a commentId with a non-empty trimmed text; and the comment actions
\* of the form change the stored drafts only when the form is submitted:
\* cancelling, or selecting another draft, leaves the stored drafts as they
\* were.
C11_StoredComments ==
    /\ [](EditSubmitted =>
             \A i \in 1..Len(View) :
                 \A k \in 1..Len(View[i].comments) : IsComment(View[i].comments[k]))
    /\ [][FormStepOnly => View' = View]_vars

\* the second half of C11 alone: the store changes only on a submit
C11_StoredOnSubmitOnly == [][FormStepOnly => View' = View]_vars

\* a comment added in the form has been stored by an edit submit
C11_AddedStored ==
    /\ EditSubmitted
    /\ \E k \in 1..Len(ret.val[1].comments) : IsStringValue(ret.val[1].comments[k])

\* the draft selected for editing, as the store holds it now
StoredSelected ==
    {i \in 1..Len(View) :
        Get(View[i], "draftId") = Get(selectedDraft[1], "draftId")}

\* the two checkboxes are as the selection set them
CheckboxesUntouched ==
    /\ formData.committed = Boolean(Get(selectedDraft[1], "committed"))
    /\ formData.archived = Boolean(Get(selectedDraft[1], "archived"))

\* the edit form is submitted in this step, by its submit button, and the
\* update is made
SubmitsEdit ==
    /\ selectedDraft # NoDraft
    /\ steps' = steps + 1
    /\ edits' = edits
    /\ call'.op = "handleUpdate"
    /\ ret'.kind = "draft"

\* C12: an edit submit never reverts a toggle made after the draft was
\* selected: when the stored draft's committed or archived differs from the
\* selected draft's, and the form is submitted with its two checkboxes
\* untouched, the stored draft keeps its committed and archived values.
C12_ToggleKept ==
    [][SubmitsEdit /\ CheckboxesUntouched =>
          \A i \in StoredSelected :
              \/ Get(View[i], "committed") = Get(selectedDraft[1], "committed")
                 /\ Get(View[i], "archived") = Get(selectedDraft[1], "archived")
              \/ /\ Get(View'[i], "committed") = Get(View[i], "committed")
                 /\ Get(View'[i], "archived") = Get(View[i], "archived")]_vars

\* a toggle made after the selection has been reverted by the submit: the
\* update the submit made carries the selected draft's committed value, and the
\* store held the other one
C12_ToggleReverted ==
    /\ EditSubmitted
    /\ \E i \in Matches(PreView, call.draftId) :
          /\ Get(PreView[i], "committed") = JsTrue
          /\ call.args.committed = JsFalse
          /\ Get(View[i], "committed") = JsFalse

====
